---------------------------- MODULE Spec2Model ----------------------------
(***************************************************************************)
(* Model of src/app.py: the intellectual-humility survey.                  *)
(*                                                                         *)
(* Strings are sequences of one-character strings, so that strip(), int(), *)
(* f-string formatting and "\n".join() are computed rather than assumed.   *)
(* Scores are kept in tenths (the code rounds to one decimal place), so    *)
(* the float 7.6 is the integer 76.                                        *)
(*                                                                         *)
(* Two specifications:                                                     *)
(*   Spec   - one submission run of main() (app.py:171-232)                *)
(*   SpecFn - the three pure functions applied to bounded inputs           *)
(***************************************************************************)
EXTENDS Integers, Sequences, FiniteSets, TLC

VARIABLES
    REVERSE_SCORED,  \* app.py:42 module global read by calculate_final_score
    user_answers,    \* app.py:180-184 raw text of each text area
    pc,              \* position of main()'s control flow
    i,               \* app.py:189 loop index (0-based)
    user_ratings,    \* app.py:188 ratings collected so far
    calls,           \* history: invocations of interpret_answer_with_chatgpt
    final_score,     \* app.py:197, in tenths; -1 before it is computed
    advice,          \* app.py:198 recommendation band; "none" before
    screen,          \* what the run has displayed after the button press
    pushed,          \* history: invocations of push_responses_to_github
    call             \* SpecFn: the latest application of a pure function

vars == <<REVERSE_SCORED, user_answers, pc, i, user_ratings, calls,
          final_score, advice, screen, pushed, call>>

mainVars == <<user_answers, pc, i, user_ratings, calls,
              final_score, advice, screen, pushed>>

-----------------------------------------------------------------------------
(* Bounds *)

\* longest response text of the external service enumerated in SpecFn
MaxRespLen == 3

\* longest rating sequence handed to calculate_final_score in SpecFn
MaxRatings == 3

\* scores (in tenths) handed to provide_recommendations in SpecFn: 0.0 .. MaxScore/10
MaxScore == 100

-----------------------------------------------------------------------------
(* String helpers *)

\* characters str.strip() and int() treat as white space
Whitespace == {" ", "\n", "\t"}

Digits == <<"0", "1", "2", "3", "4", "5", "6", "7", "8", "9">>

IsDigit(c) == \E d \in 1..10 : Digits[d] = c

DigitVal(c) == (CHOOSE d \in 1..10 : Digits[d] = c) - 1

RECURSIVE LStrip(_)
LStrip(s) ==
    IF s # <<>> /\ Head(s) \in Whitespace THEN LStrip(Tail(s)) ELSE s

RECURSIVE RStrip(_)
RStrip(s) ==
    IF s # <<>> /\ s[Len(s)] \in Whitespace
    THEN RStrip(SubSeq(s, 1, Len(s) - 1))
    ELSE s

\* str.strip() with no argument
Strip(s) == RStrip(LStrip(s))

\* str(n) for a natural number n
RECURSIVE IntToStr(_)
IntToStr(n) ==
    IF n < 10 THEN <<Digits[n + 1]>>
    ELSE IntToStr(n \div 10) \o <<Digits[(n % 10) + 1]>>

\* str(x) of a float that holds a non-negative multiple of 0.1, x = t/10
FloatToStr(t) == IntToStr(t \div 10) \o <<".">> \o IntToStr(t % 10)

\* "\n".join(lines)
RECURSIVE JoinLines(_)
JoinLines(lines) ==
    IF lines = <<>> THEN <<>>
    ELSE IF Len(lines) = 1 THEN lines[1]
    ELSE lines[1] \o <<"\n">> \o JoinLines(Tail(lines))

\* value of a non-empty sequence of decimal digits
RECURSIVE DigitsValue(_)
DigitsValue(s) ==
    IF s = <<>> THEN 0
    ELSE 10 * DigitsValue(SubSeq(s, 1, Len(s) - 1)) + DigitVal(s[Len(s)])

\* int(s) for a str: surrounding white space is ignored, then an optional
\* sign, then one or more decimal digits; anything else raises ValueError
\* (ok = FALSE).
ParseInt(s) ==
    LET t    == Strip(s)
        sgn  == IF t # <<>> /\ Head(t) \in {"+", "-"} THEN Head(t) ELSE ""
        body == IF sgn = "" THEN t ELSE Tail(t)
        good == body # <<>> /\ \A k \in 1..Len(body) : IsDigit(body[k])
    IN  IF good
        THEN [ok |-> TRUE,
              value |-> IF sgn = "-" THEN 0 - DigitsValue(body)
                                     ELSE DigitsValue(body)]
        ELSE [ok |-> FALSE, value |-> 0]

-----------------------------------------------------------------------------
(* Configuration: app.py:25-43 *)

\* The five question texts, each cut to its opening words.
QUESTIONS ==
    << <<"C", "a", "n", " ", "y", "o", "u", "?">>,
       <<"W", "h", "a", "t", "?">>,
       <<"W", "h", "e", "n", "?">>,
       <<"I", "n", " ", "a", "r", "e", "a", "s", "?">>,
       <<"H", "o", "w", "?">> >>

NumQuestions == Len(QUESTIONS)

\* the placeholder of app.py:192
NoAnswerProvided ==
    <<"N", "o", " ", "a", "n", "s", "w", "e", "r", " ",
      "p", "r", "o", "v", "i", "d", "e", "d", ".">>

\* the fallback rating of app.py:76 and app.py:78
FallbackRating == 3

\* the divisor of app.py:95
NormalizationDivisor == 25

-----------------------------------------------------------------------------
(* interpret_answer_with_chatgpt, app.py:71-80: from the response text to   *)
(* the rating returned.                                                    *)

\* mutant: the range check of app.py:75-76 left out
RatingFromResponse_NoRangeCheck(content) ==
    LET parsed == ParseInt(Strip(content))
    IN  IF parsed.ok THEN parsed.value ELSE FallbackRating

RatingFromResponse(content) ==
    LET raw_answer == Strip(content)
        parsed     == ParseInt(raw_answer)
    IN  IF parsed.ok
        THEN IF parsed.value < 1 \/ parsed.value > 5
             THEN FallbackRating
             ELSE parsed.value
        ELSE FallbackRating

(* calculate_final_score, app.py:82-96 *)

\* mutant: the reverse-scored indices read as 1-based
ScoredRating_OneBased(idx, rating, reverse) ==
    IF (idx + 1) \in reverse THEN 6 - rating ELSE rating

\* the rating as summed at 0-based index idx (app.py:89-91)
ScoredRating(idx, rating, reverse) ==
    IF idx \in reverse THEN 6 - rating ELSE rating

\* the loop of app.py:87-92 over ratings[1..n], i.e. indices 0..n-1
RECURSIVE TotalScore(_, _, _)
TotalScore(ratings, n, reverse) ==
    IF n = 0 THEN 0
    ELSE TotalScore(ratings, n - 1, reverse)
         + ScoredRating(n - 1, ratings[n], reverse)

\* round(num/den, 0) for num >= 0, den > 0: nearest integer, ties to even
RoundHalfEven(num, den) ==
    LET q == num \div den
        r == num % den
    IN  IF 2 * r < den THEN q
        ELSE IF 2 * r > den THEN q + 1
        ELSE IF q % 2 = 0 THEN q ELSE q + 1

\* app.py:95-96: round((total_score / 25) * 10, 1), in tenths.  The exact
\* value 100 * total_score / 25 is an integer, so the rounding never meets
\* a tie and the float error (below 1e-13) cannot move the result.
FinalScoreOf(total_score) ==
    RoundHalfEven(100 * total_score, NormalizationDivisor)

calculate_final_score(ratings) ==
    FinalScoreOf(TotalScore(ratings, Len(ratings), REVERSE_SCORED))

\* mutant: the upper edge of each band left open
provide_recommendations_OpenEdge(score) ==
    IF score < 30 THEN "low"
    ELSE IF score < 60 THEN "moderate"
    ELSE IF score < 80 THEN "fairly_high"
    ELSE "high"

(* provide_recommendations, app.py:98-125; score in tenths; the four fixed *)
(* texts are named by their band.                                          *)
provide_recommendations(score) ==
    IF score <= 30 THEN "low"
    ELSE IF 30 < score /\ score <= 60 THEN "moderate"
    ELSE IF 60 < score /\ score <= 80 THEN "fairly_high"
    ELSE "high"


-----------------------------------------------------------------------------
(* main(), app.py:171-232 *)

\* literal pieces of the f-strings of app.py:200-217
TimestampLabel == <<"T", "i", "m", "e", "s", "t", "a", "m", "p", ":", " ">>
AnswerLabel == <<"A", "n", "s", "w", "e", "r", ":", " ">>
FinalScoreLabel ==
    <<"F", "i", "n", "a", "l", " ", "S", "c", "o", "r", "e", ":", " ">>
ScoreHeading ==
    <<"Y", "o", "u", "r", " ", "I", "n", "t", "e", "l", "l", "e", "c", "t",
      "u", "a", "l", " ", "H", "u", "m", "i", "l", "i", "t", "y", " ",
      "S", "c", "o", "r", "e", ":", " ">>
OutOfTen == <<"/", "1", "0">>
ResponsesDir ==
    <<"r", "e", "s", "p", "o", "n", "s", "e", "s", "/",
      "r", "e", "s", "p", "o", "n", "s", "e", "s", "_">>
TxtSuffix == <<".", "t", "x", "t">>

\* values datetime.now().strftime("%Y%m%d_%H%M%S") takes in the model
Timestamps ==
    { <<"2", "0", "2", "4", "0", "1", "0", "1", "_",
        "1", "2", "0", "0", "0", "0">> }

\* texts a user leaves in a text area: nothing, white space only, and a
\* two-line answer with white space around it
AnswerTexts ==
    { <<>>, <<" ", "\n">>, <<" ", "a", "\n", "b", " ">> }

\* response texts of the external service in a run of main: a padded
\* rating, an integer out of range, and a text that is no integer
ServiceResponses ==
    { <<" ", "4", "\n">>, <<"7">>, <<"N", "/", "A">> }

\* mutant: the substitution of app.py:191-192 left out
AnswerText_NoPlaceholder(answer) == Strip(answer)

\* app.py:190-192: the answer handed to the interpreter
AnswerText(answer) ==
    LET answer_text == Strip(answer)
    IN  IF answer_text = <<>> THEN NoAnswerProvided ELSE answer_text

\* mutant: the rating put in front of the list
AppendRating_InFront(ratings, rating) == <<rating>> \o ratings

\* app.py:195
AppendRating(ratings, rating) == Append(ratings, rating)

\* app.py:200-201: what the run displays once the score is known
ScoreDisplay(score, band) ==
    << [kind |-> "subheader",
        body |-> ScoreHeading \o FloatToStr(score) \o OutOfTen],
       [kind |-> "write_advice", body |-> <<band>>] >>

\* app.py:209-212: the three lines of each question, from 1-based k on
RECURSIVE QuestionLines(_, _)
QuestionLines(answers, k) ==
    IF k > Len(answers) THEN <<>>
    ELSE << <<"Q">> \o IntToStr(k) \o <<":", " ">> \o QUESTIONS[k],
            AnswerLabel \o answers[k],
            <<>> >>
         \o QuestionLines(answers, k + 1)

\* mutant: the answers written as they were handed to the interpreter
FileText_InterpretedAnswers(timestamp, answers, score) ==
    JoinLines(<<TimestampLabel \o timestamp>>
              \o QuestionLines([k \in 1..Len(answers) |->
                                  AnswerText(answers[k])], 1)
              \o <<FinalScoreLabel \o FloatToStr(score)>>)

\* app.py:207-214: file_text
FileText(timestamp, answers, score) ==
    JoinLines(<<TimestampLabel \o timestamp>>
              \o QuestionLines(answers, 1)
              \o <<FinalScoreLabel \o FloatToStr(score)>>)

\* app.py:205, 217: file_path_in_repo
FilePathInRepo(timestamp) == ResponsesDir \o timestamp \o TxtSuffix

\* app.py:229-232: the message after the push returned
PushMessage(success, path) ==
    IF success THEN [kind |-> "success", body |-> path]
               ELSE [kind |-> "error", body |-> <<>>]

NoCall ==
    [op |-> "none", content |-> <<>>, ratings |-> <<>>, arg |-> 0,
     outcome |-> "none", result |-> 0, total |-> 0, band |-> "none"]

\* the script is loaded, the text areas hold the user's answers and the
\* button has not been pressed (app.py:180-187)
Init ==
    /\ REVERSE_SCORED = {}
    /\ user_answers \in [1..NumQuestions -> AnswerTexts]
    /\ pc = "idle"
    /\ i = 0
    /\ user_ratings = <<>>
    /\ calls = <<>>
    /\ final_score = -1
    /\ advice = "none"
    /\ screen = <<>>
    /\ pushed = <<>>
    /\ call = NoCall

\* app.py:187-188: the button is pressed
Submit ==
    /\ pc = "idle"
    /\ pc' = "loop"
    /\ i' = 0
    /\ user_ratings' = <<>>
    /\ UNCHANGED <<REVERSE_SCORED, user_answers, calls, final_score, advice,
                   screen, pushed, call>>

\* app.py:189-194 and 45-69: the next question's answer is prepared and
\* the request to the external service is issued
CallInterpreter ==
    /\ pc = "loop"
    /\ i < NumQuestions
    /\ calls' = Append(calls, [index |-> i,
                               question |-> QUESTIONS[i + 1],
                               answer |-> AnswerText(user_answers[i + 1]),
                               service |-> "pending",
                               status |-> "pending",
                               rating |-> 0])
    /\ pc' = "calling"
    /\ UNCHANGED <<REVERSE_SCORED, user_answers, i, user_ratings, final_score,
                   advice, screen, pushed, call>>

\* app.py:71-80 and 195: the service answered with text `content`
ServiceResponds(content) ==
    /\ pc = "calling"
    /\ LET rating == RatingFromResponse(content)
       IN  /\ calls' = [calls EXCEPT ![Len(calls)] =
                           [@ EXCEPT !.service = "answered",
                                       !.status = "returned",
                                       !.rating = rating]]
           /\ user_ratings' = AppendRating(user_ratings, rating)
    /\ i' = i + 1
    /\ pc' = "loop"
    /\ UNCHANGED <<REVERSE_SCORED, user_answers, final_score, advice, screen,
                   pushed, call>>

\* app.py:62-69: openai.ChatCompletion.create raises; nothing between it
\* and the top of main() catches, so the run ends there
ServiceFails ==
    /\ pc = "calling"
    /\ calls' = [calls EXCEPT ![Len(calls)] =
                    [@ EXCEPT !.service = "failed", !.status = "raised"]]
    /\ pc' = "crashed"
    /\ UNCHANGED <<REVERSE_SCORED, user_answers, i, user_ratings, final_score,
                   advice, screen, pushed, call>>

\* mutant: the score is computed but its display is left for later
Score_NotDisplayed ==
    /\ pc = "loop"
    /\ i = NumQuestions
    /\ final_score' = calculate_final_score(user_ratings)
    /\ advice' = provide_recommendations(final_score')
    /\ pc' = "scored"
    /\ UNCHANGED <<REVERSE_SCORED, user_answers, i, user_ratings, calls,
                   screen, pushed, call>>

\* app.py:197-201: the loop is over; score, advice and their display
Score ==
    /\ pc = "loop"
    /\ i = NumQuestions
    /\ LET score == calculate_final_score(user_ratings)
           band  == provide_recommendations(score)
       IN  /\ final_score' = score
           /\ advice' = band
           /\ screen' = screen \o ScoreDisplay(score, band)
    /\ pc' = "scored"
    /\ UNCHANGED <<REVERSE_SCORED, user_answers, i, user_ratings, calls,
                   pushed, call>>

\* app.py:203-227 and 149-165: the content is built and the PUT is issued
BuildAndPush ==
    /\ pc = "scored"
    /\ \E timestamp \in Timestamps :
          pushed' = Append(pushed,
                      [file_path |-> FilePathInRepo(timestamp),
                       content |-> FileText(timestamp, user_answers, final_score),
                       outcome |-> "pending"])
    /\ screen' = Append(screen, [kind |-> "write_pushing", body |-> <<>>])
    /\ pc' = "pushing"
    /\ UNCHANGED <<REVERSE_SCORED, user_answers, i, user_ratings, calls,
                   final_score, advice, call>>

\* app.py:166-169 and 229-232: the PUT returned; success is a status of
\* 200 or 201
PushReturns(success) ==
    /\ pc = "pushing"
    /\ pushed' = [pushed EXCEPT ![Len(pushed)] =
                    [@ EXCEPT !.outcome = IF success THEN "ok" ELSE "failed"]]
    /\ screen' = Append(screen, PushMessage(success, pushed[Len(pushed)].file_path))
    /\ pc' = "done"
    /\ UNCHANGED <<REVERSE_SCORED, user_answers, i, user_ratings, calls,
                   final_score, advice, call>>

\* app.py:165: requests.put raises (no connection); main() does not catch
PushRaises ==
    /\ pc = "pushing"
    /\ pushed' = [pushed EXCEPT ![Len(pushed)] = [@ EXCEPT !.outcome = "raised"]]
    /\ pc' = "push_crashed"
    /\ UNCHANGED <<REVERSE_SCORED, user_answers, i, user_ratings, calls,
                   final_score, advice, screen, call>>

Next ==
    \/ Submit
    \/ CallInterpreter
    \/ \E content \in ServiceResponses : ServiceResponds(content)
    \/ ServiceFails
    \/ Score
    \/ BuildAndPush
    \/ \E success \in BOOLEAN : PushReturns(success)
    \/ PushRaises

Spec == Init /\ [][Next]_vars

-----------------------------------------------------------------------------
(* SpecFn: each behaviour applies one of the functions once to an input    *)
(* drawn from a bounded set.                                               *)

\* characters of the response texts enumerated
RespAlphabet == {"0", "1", "2", "3", "4", "5", "6", " ", "-", "+", "a"}

\* every text over RespAlphabet of at most MaxRespLen characters
Responses == UNION { [1..k -> RespAlphabet] : k \in 0..MaxRespLen }

\* the values interpret_answer_with_chatgpt can return
InterpreterRange == { RatingFromResponse(content) : content \in Responses }

\* the rating lists main() can build from them (app.py:188-195), and the
\* empty list
RatingLists == UNION { [1..k -> InterpreterRange] : k \in 0..MaxRatings }

\* the values of the module global REVERSE_SCORED tried: every set of
\* indices of the lists above; the shipped [] (app.py:42) is one of them
ReverseSets == SUBSET (0..(MaxRatings - 1))

InitFn ==
    /\ REVERSE_SCORED = {}
    /\ user_answers = [k \in 1..NumQuestions |-> <<>>]
    /\ pc = "unit"
    /\ i = 0
    /\ user_ratings = <<>>
    /\ calls = <<>>
    /\ final_score = -1
    /\ advice = "none"
    /\ screen = <<>>
    /\ pushed = <<>>
    /\ call = NoCall

\* app.py:62-80 with the service answering `content`
ApplyInterpret(content) ==
    /\ call.op = "none"
    /\ call' = [NoCall EXCEPT !.op = "interpret", !.content = content,
                              !.outcome = "returned",
                              !.result = RatingFromResponse(content)]
    /\ UNCHANGED <<REVERSE_SCORED, mainVars>>

\* app.py:62-69 with the request raising: the function has no handler
ApplyInterpretFails ==
    /\ call.op = "none"
    /\ call' = [NoCall EXCEPT !.op = "interpret", !.outcome = "raised"]
    /\ UNCHANGED <<REVERSE_SCORED, mainVars>>

\* app.py:82-96, applied with the global REVERSE_SCORED (app.py:42-43)
\* set to `reverse`
ApplyCalculate(ratings, reverse) ==
    /\ call.op = "none"
    /\ REVERSE_SCORED' = reverse
    /\ call' = [NoCall EXCEPT !.op = "calculate", !.ratings = ratings,
                              !.outcome = "returned",
                              !.total = TotalScore(ratings, Len(ratings),
                                                   reverse),
                              !.result = calculate_final_score(ratings)']
    /\ UNCHANGED mainVars

\* app.py:98-125
ApplyRecommend(score) ==
    /\ call.op = "none"
    /\ call' = [NoCall EXCEPT !.op = "recommend", !.arg = score,
                              !.outcome = "returned",
                              !.band = provide_recommendations(score)]
    /\ UNCHANGED <<REVERSE_SCORED, mainVars>>

\* the applications over their bounded inputs; one per behaviour, so the
\* guard stands before the inputs are drawn
InterpretAny ==
    /\ call.op = "none"
    /\ \E content \in Responses : ApplyInterpret(content)

CalculateAny ==
    /\ call.op = "none"
    /\ \E ratings \in RatingLists : \E reverse \in ReverseSets :
          ApplyCalculate(ratings, reverse)

RecommendAny ==
    /\ call.op = "none"
    /\ \E score \in 0..MaxScore : ApplyRecommend(score)

NextFn ==
    \/ InterpretAny
    \/ ApplyInterpretFails
    \/ CalculateAny
    \/ RecommendAny

SpecFn == InitFn /\ [][NextFn]_vars

-----------------------------------------------------------------------------
(* Properties *)

Bands == {"low", "moderate", "fairly_high", "high"}

RECURSIVE SumSeq(_)
SumSeq(s) == IF s = <<>> THEN 0 ELSE Head(s) + SumSeq(Tail(s))

Abs(x) == IF x < 0 THEN 0 - x ELSE x

IsBlank(s) == \A k \in 1..Len(s) : s[k] \in Whitespace

\* t is s without its leading and trailing white space
IsTrimOf(t, s) ==
    \E a \in 0..Len(s) : \E b \in a..Len(s) :
        /\ t = SubSeq(s, a + 1, b)
        /\ \A k \in 1..a : s[k] \in Whitespace
        /\ \A k \in (b + 1)..Len(s) : s[k] \in Whitespace
        /\ t # <<>> => (t[1] \notin Whitespace /\ t[Len(t)] \notin Whitespace)

\* the trimmed text s is a decimal numeral of the one-digit value v:
\* an optional plus sign, any number of zeros, the digit
Denotes(s, v) ==
    \E t \in { SubSeq(s, a, b) : a \in 1..(Len(s) + 1), b \in 0..Len(s) } :
        /\ IsTrimOf(t, s)
        /\ \E sign \in { <<>>, <<"+">> } : \E z \in 0..Len(t) :
              t = sign \o [k \in 1..z |-> "0"] \o <<Digits[v + 1]>>

\* C1: whenever the external call fails, the interpreter returns the
\* fallback rating 3 to main instead of raising, and the run goes on.
C1_FailedCallYieldsFallback ==
    /\ pc # "crashed"
    /\ \A k \in 1..Len(calls) :
          calls[k].service = "failed"
             => calls[k].status = "returned" /\ calls[k].rating = 3

\* C2: for every response text the interpreter returns an integer in 1..5:
\* the trimmed text's value when that is an integer in 1..5, and 3
\* otherwise; so every rating handed to calculate_final_score is in 1..5.
C2_RatingInRange ==
    /\ (call.op = "interpret" /\ call.outcome = "returned") =>
          /\ call.result \in 1..5
          /\ \A v \in 1..5 : Denotes(call.content, v) => call.result = v
          /\ (\A v \in 1..5 : ~Denotes(call.content, v)) => call.result = 3
    /\ call.op = "calculate" =>
          \A k \in 1..Len(call.ratings) : call.ratings[k] \in 1..5

C2_Witness ==
    /\ call.op = "interpret"
    /\ call.content = <<" ", "+", "5">>
    /\ call.result = 5

\* C3: with no reverse-scored index among them, N >= 1 ratings in 1..5
\* score (sum / (5 * N)) * 10 rounded to one decimal place: the result in
\* tenths is within half a tenth of 100 * sum / (5 * N).
C3_DivisorScalesWithN ==
    LET n == Len(call.ratings)
    IN  (/\ call.op = "calculate"
         /\ n >= 1
         /\ REVERSE_SCORED \cap (0..(n - 1)) = {})
        => /\ call.outcome = "returned"
           /\ 2 * Abs(n * call.result - 20 * SumSeq(call.ratings)) <= n

\* C4: calculate_final_score applied to the empty list is rejected with an
\* InvalidInput error and returns no score.
C4_EmptyListRejected ==
    (call.op = "calculate" /\ call.ratings = <<>>)
        => call.outcome = "InvalidInput"

\* C5: the total is the sum of 6 - r at the reverse-scored indices and of r
\* at the others; flagging one more index moves the total by 6 - 2r of that
\* index alone; inverting twice gives the rating back.
C5_ReverseScoring ==
    call.op = "calculate" =>
        LET r == call.ratings
            n == Len(r)
            flagged == REVERSE_SCORED \cap (0..(n - 1))
        IN  /\ call.total =
                  SumSeq([k \in 1..n |-> IF (k - 1) \in REVERSE_SCORED
                                         THEN 6 - r[k] ELSE r[k]])
            /\ \A j \in (0..(n - 1)) \ flagged :
                  TotalScore(r, n, REVERSE_SCORED \cup {j})
                     = call.total + 6 - 2 * r[j + 1]
            /\ \A j \in flagged :
                  /\ call.total
                        = TotalScore(r, n, REVERSE_SCORED \ {j})
                          + 6 - 2 * r[j + 1]
                  /\ ScoredRating(j, ScoredRating(j, r[j + 1], REVERSE_SCORED),
                                  REVERSE_SCORED) = r[j + 1]

C5_Witness ==
    /\ call.op = "calculate"
    /\ call.ratings = <<1, 4, 5>>
    /\ REVERSE_SCORED = {0, 2}
    /\ call.total = 10

\* C6: every score falls in exactly one band: low up to 3.0, moderate above
\* 3.0 up to 6.0, fairly high above 6.0 up to 8.0, high above 8.0; 3.0 is
\* low, 3.1 moderate, 6.0 moderate, 8.0 fairly high, 8.1 high.
C6_Bands ==
    call.op = "recommend" =>
        LET s == call.arg
            b == call.band
        IN  /\ b \in Bands
            /\ (b = "low") <=> (s <= 30)
            /\ (b = "moderate") <=> (30 < s /\ s <= 60)
            /\ (b = "fairly_high") <=> (60 < s /\ s <= 80)
            /\ (b = "high") <=> (s > 80)
            /\ s = 30 => b = "low"
            /\ s = 31 => b = "moderate"
            /\ s = 60 => b = "moderate"
            /\ s = 80 => b = "fairly_high"
            /\ s = 81 => b = "high"

C6_Witness ==
    /\ call.op = "recommend"
    /\ call.arg = 80
    /\ call.band = "fairly_high"

\* C7: once scoring has finished, the score and the recommendation are on
\* screen, before the push and whatever its outcome; a failed push adds one
\* failure message and nothing else; there is at most one push; the score
\* stays the one computed from the ratings.
C7_ScoreShownWhateverThePush ==
    /\ Len(pushed) <= 1
    /\ final_score # -1 =>
          /\ final_score = 4 * SumSeq(user_ratings)
          /\ advice \in Bands
          /\ Len(screen) >= 2
          /\ screen[1] = [kind |-> "subheader",
                          body |-> ScoreHeading \o FloatToStr(final_score)
                                   \o OutOfTen]
          /\ screen[2] = [kind |-> "write_advice", body |-> <<advice>>]
    /\ final_score = -1 => pushed = <<>>
    /\ Len(pushed) = 1 =>
          /\ Len(screen) >= 3
          /\ screen[3].kind = "write_pushing"
          /\ pushed[1].outcome \in {"pending", "raised"} => Len(screen) = 3
          /\ pushed[1].outcome = "failed" =>
                Len(screen) = 4 /\ screen[4].kind = "error"
          /\ pushed[1].outcome = "ok" =>
                Len(screen) = 4 /\ screen[4].kind = "success"

C7_Witness ==
    /\ pc = "done"
    /\ Len(pushed) = 1
    /\ pushed[1].outcome = "failed"
    /\ screen[4].kind = "error"
    /\ final_score = 68

\* the text of `content` after its first line
AfterFirstLine(content) ==
    LET nl == CHOOSE k \in 1..Len(content) :
                  /\ content[k] = "\n"
                  /\ \A j \in 1..(k - 1) : content[j] # "\n"
    IN  SubSeq(content, nl + 1, Len(content))

\* the score text of the subheader on screen
ShownScore ==
    SubSeq(screen[1].body, Len(ScoreHeading) + 1,
           Len(screen[1].body) - Len(OutOfTen))

\* the records of questions k..NumQuestions, each three lines
RECURSIVE ExpectedRecords(_)
ExpectedRecords(k) ==
    IF k > NumQuestions THEN <<>>
    ELSE <<"Q", Digits[k + 1], ":", " ">> \o QUESTIONS[k] \o <<"\n">>
         \o <<"A", "n", "s", "w", "e", "r", ":", " ">> \o user_answers[k]
         \o <<"\n">>
         \o <<"\n">>
         \o ExpectedRecords(k + 1)

\* C8: after the timestamp line the text handed to the push is, for each
\* question in order, 'Q<i>: <question>', 'Answer: <raw answer>' and a
\* blank line, then 'Final Score: <score>' with the score as displayed.
C8_FileText ==
    \A p \in 1..Len(pushed) :
        /\ \E ts \in Timestamps :
              SubSeq(pushed[p].content, 1, Len(TimestampLabel \o ts) + 1)
                 = TimestampLabel \o ts \o <<"\n">>
        /\ AfterFirstLine(pushed[p].content)
              = ExpectedRecords(1)
                \o <<"F", "i", "n", "a", "l", " ", "S", "c", "o", "r", "e",
                     ":", " ">>
                \o ShownScore

C8_Witness ==
    /\ Len(pushed) = 1
    /\ user_answers[1] = <<" ", "\n">>
    /\ user_answers[2] = <<" ", "a", "\n", "b", " ">>
    /\ user_answers[3] = <<>>
    /\ ShownScore = <<"6", ".", "4">>

\* C9: a blank answer reaches the interpreter as 'No answer provided.', any
\* other answer as its stripped text; the interpreter never gets a blank
\* answer.
C9_PlaceholderForBlank ==
    \A k \in 1..Len(calls) :
        /\ IsBlank(user_answers[k]) => calls[k].answer = NoAnswerProvided
        /\ ~IsBlank(user_answers[k])
              => IsTrimOf(calls[k].answer, user_answers[k])
        /\ ~IsBlank(calls[k].answer)

C9_Witness ==
    /\ Len(calls) = NumQuestions
    /\ user_answers[1] = <<" ", "\n">>
    /\ calls[1].answer = NoAnswerProvided
    /\ user_answers[2] = <<" ", "a", "\n", "b", " ">>
    /\ calls[2].answer = <<"a", "\n", "b">>
    /\ user_answers[NumQuestions] = <<>>
    /\ calls[NumQuestions].status = "returned"

\* C10: the interpreter is invoked once per question, in order, each call
\* over before the next begins; the score is computed only after all N
\* calls returned, from the N ratings in the order of their questions.
C10_OneCallPerQuestionInOrder ==
    /\ Len(calls) <= NumQuestions
    /\ \A k \in 1..Len(calls) :
          /\ calls[k].index = k - 1
          /\ calls[k].question = QUESTIONS[k]
          /\ k < Len(calls) => calls[k].status = "returned"
    /\ Len(user_ratings)
          = Cardinality({k \in 1..Len(calls) : calls[k].status = "returned"})
    /\ \A k \in 1..Len(user_ratings) : user_ratings[k] = calls[k].rating
    /\ final_score # -1 =>
          /\ Len(calls) = NumQuestions
          /\ \A k \in 1..NumQuestions : calls[k].status = "returned"
          /\ Len(user_ratings) = NumQuestions
          /\ final_score = 4 * SumSeq([k \in 1..NumQuestions |-> calls[k].rating])

C10_Witness ==
    /\ pc = "scored"
    /\ user_ratings = <<4, 3, 3, 4, 3>>
    /\ calls[1].rating = 4
    /\ calls[5].rating = 3
    /\ final_score = 68

=============================================================================
